---------------------------- MODULE Spec2Model ----------------------------
(***************************************************************************)
(* A model of src/player.js: a Media Source Extensions player that parses  *)
(* a DASH manifest, builds one segment table per AdaptationSet and feeds   *)
(* the segments of every track into that track's SourceBuffer.             *)
(*                                                                         *)
(* Strings are sequences of one-character strings, so that the string      *)
(* operations of the source (replace, regular-expression match, number to  *)
(* decimal text, parseInt) are computed as the source computes them.       *)
(***************************************************************************)
EXTENDS Integers, Sequences, FiniteSets, TLC

VARIABLES
    loader,      \* parseManifest: where the orchestrator stands
    manifest,    \* the document the manifest URL serves (its first Period)
    feeders,     \* the module-level `feeders`: undefined, or the list of tracks
    feeder,      \* track -> state of its AdaptationSetFeeder.mainAsync
    sink,        \* track -> state of its SourceBuffer
    log,         \* track -> history of what the feeder did to network and sink
    monitor,     \* what the setInterval callback printed last
    tlIn,        \* segment-table construction: the SegmentTemplate given
    tlOut,       \* segment-table construction: the table built
    rpIn,        \* resolvePath: the arguments given
    rpOut,       \* resolvePath: the string returned
    xhr          \* one request of requestXML / requestBinaryMedia

vars == <<loader, manifest, feeders, feeder, sink, log, monitor,
          tlIn, tlOut, rpIn, rpOut, xhr>>

playerVars == <<loader, manifest, feeders, feeder, sink, log, monitor>>
timelineVars == <<tlIn, tlOut>>
pathVars == <<rpIn, rpOut>>
xhrVars == <<xhr>>

None == <<"none">>

----------------------------------------------------------------------------
(* Bounds of the model.                                                    *)

\* S elements of a SegmentTimeline
MaxSEntries == 2
\* largest repeat count r of an S element
MaxRepeat == 2
\* largest duration d of an S element
MaxDuration == 2
\* length of a manifest URL in the resolvePath runs
MaxPathLen == 4
\* "progress" readystatechange events (readyState 3) of one request
MaxProgress == 2
\* QuotaExceededError rejections one SourceBuffer raises
MaxQuota == 2
\* media segments of one track of the player
MaxSegments == 2

----------------------------------------------------------------------------
(* Strings.                                                                *)

Digits == <<"0", "1", "2", "3", "4", "5", "6", "7", "8", "9">>

DigitValue(c) == CHOOSE v \in 0..9 : Digits[v + 1] = c

IsDigit(c) == \E v \in 0..9 : Digits[v + 1] = c

\* Number.prototype.toString() of a non-negative integer
RECURSIVE toString(_)
toString(n) ==
    IF n < 10 THEN <<Digits[n + 1]>>
    ELSE toString(n \div 10) \o <<Digits[(n % 10) + 1]>>

\* parseInt of a string of decimal digits (leading zeros allowed)
RECURSIVE ParseDigits(_, _)
ParseDigits(s, acc) ==
    IF s = <<>> \/ ~IsDigit(Head(s)) THEN acc
    ELSE ParseDigits(Tail(s), 10 * acc + DigitValue(Head(s)))

parseInt(s) == ParseDigits(s, 0)

\* String.prototype.indexOf: 1-based position of the first occurrence, 0 if none
IndexOf(s, pat) ==
    LET hits == {i \in 1..(Len(s) - Len(pat) + 1) :
                    SubSeq(s, i, i + Len(pat) - 1) = pat}
    IN IF hits = {} THEN 0 ELSE CHOOSE i \in hits : \A j \in hits : i <= j

\* String.prototype.replace(pattern string, replacement): first occurrence only
Replace(s, pat, rep) ==
    LET i == IndexOf(s, pat)
    IN IF i = 0 THEN s
       ELSE SubSeq(s, 1, i - 1) \o rep \o SubSeq(s, i + Len(pat), Len(s))

RepresentationIDToken ==
    <<"$", "R", "e", "p", "r", "e", "s", "e", "n", "t", "a", "t", "i", "o", "n",
      "I", "D", "$">>

NumberToken == <<"$", "N", "u", "m", "b", "e", "r", "$">>

----------------------------------------------------------------------------
(* AdaptationSetFeeder.resolvePath                                         *)

\* where /\/[^/]+$/ matches: the "/" that only non-"/" characters, and at
\* least one, follow up to the end of the string; 0 if there is no match
SlashTailMatch(s) ==
    LET hits == {i \in 1..(Len(s) - 1) :
                    /\ s[i] = "/"
                    /\ \A j \in (i + 1)..Len(s) : s[j] # "/"}
    IN IF hits = {} THEN 0 ELSE CHOOSE i \in hits : \A j \in hits : i <= j

\* mpdPath.replace(/\/[^/]+$/, "")
StripLastSegment(s) ==
    LET i == SlashTailMatch(s)
    IN IF i = 0 THEN s ELSE SubSeq(s, 1, i - 1)

resolvePath(mpdPath, relativePath) ==
    StripLastSegment(mpdPath) \o <<"/">> \o relativePath

----------------------------------------------------------------------------
(* xpathSingle, and the segment table of the AdaptationSetFeeder           *)
(* constructor.                                                            *)

\* xpathSingle over the list xpathList returned: the node, or the Error thrown
xpathSingle(list) ==
    IF Len(list) = 1 THEN [threw |-> FALSE, node |-> list[1], error |-> ""]
    ELSE IF Len(list) = 0
         THEN [threw |-> TRUE, node |-> None, error |-> "Could not find XPath"]
         ELSE [threw |-> TRUE, node |-> None,
               error |-> "Several unexpected matches when searching XPath"]

\* a faulty variant: the r attribute is never read
RepeatCountIgnoringR(segmentNode) == 0

\* const repeatCount = segmentNode.hasAttribute("r") ? parseInt(...) : 0
RepeatCount(segmentNode) ==
    IF segmentNode.hasR THEN parseInt(segmentNode.r) ELSE 0

\* a faulty variant: numbering starts at 1 whatever startNumber says
StartNumberAlwaysOne(segmentTemplate) == 1

\* const startNumber = parseInt(segmentTemplate.getAttribute("startNumber"))
StartNumber(segmentTemplate) == parseInt(segmentTemplate.startNumber)

\* segmentTemplate.getAttribute("media").replace("$RepresentationID$", id)
MediaTemplate(segmentTemplate, representationId) ==
    Replace(segmentTemplate.media, RepresentationIDToken, representationId)

\* a faulty variant: the time cursor is not advanced after the push
PushSegmentCursorNotAdvanced(mpdPath, mediaTemplate, segmentNode, st) ==
    LET duration == parseInt(segmentNode.d)
    IN [number |-> st.number + 1,
        accumulatedTimeUnits |-> st.accumulatedTimeUnits,
        segmentTable |-> Append(st.segmentTable,
            [start |-> st.accumulatedTimeUnits,
             duration |-> duration,
             end |-> st.accumulatedTimeUnits + duration,
             path |-> resolvePath(mpdPath,
                        Replace(mediaTemplate, NumberToken, toString(st.number)))])]

\* the body of the inner loop: one entry pushed, the cursors advanced
PushSegment(mpdPath, mediaTemplate, segmentNode, st) ==
    LET path == resolvePath(mpdPath,
                    Replace(mediaTemplate, NumberToken, toString(st.number)))
        start == st.accumulatedTimeUnits
        duration == parseInt(segmentNode.d)
        end == st.accumulatedTimeUnits + duration
    IN [number |-> st.number + 1,
        accumulatedTimeUnits |-> end,
        segmentTable |-> Append(st.segmentTable,
            [start |-> start, duration |-> duration, end |-> end, path |-> path])]

\* for (let repetition = 0; repetition <= repeatCount; ++repetition)
RECURSIVE RepetitionLoop(_, _, _, _, _, _)
RepetitionLoop(mpdPath, mediaTemplate, segmentNode, repetition, repeatCount, st) ==
    IF repetition <= repeatCount
    THEN RepetitionLoop(mpdPath, mediaTemplate, segmentNode, repetition + 1,
                        repeatCount,
                        PushSegment(mpdPath, mediaTemplate, segmentNode, st))
    ELSE st

\* for (let segmentNode of xpathList(... "mpd:S"))
RECURSIVE SegmentNodeLoop(_, _, _, _)
SegmentNodeLoop(mpdPath, mediaTemplate, nodes, st) ==
    IF nodes = <<>> THEN st
    ELSE SegmentNodeLoop(mpdPath, mediaTemplate, Tail(nodes),
            RepetitionLoop(mpdPath, mediaTemplate, Head(nodes), 0,
                           RepeatCount(Head(nodes)), st))

\* this.segmentTable once the constructor has parsed the segment list
SegmentTable(mpdPath, representationId, segmentTemplate) ==
    SegmentNodeLoop(mpdPath, MediaTemplate(segmentTemplate, representationId),
                    segmentTemplate.S,
                    [number |-> StartNumber(segmentTemplate),
                     accumulatedTimeUnits |-> 0,
                     segmentTable |-> <<>>]).segmentTable

\* this.initializationSegmentPath
InitializationSegmentPath(mpdPath, representationId, segmentTemplate) ==
    resolvePath(mpdPath,
        Replace(segmentTemplate.initialization, RepresentationIDToken,
                representationId))

----------------------------------------------------------------------------
(* requestXML and requestBinaryMedia: one XMLHttpRequest and the promise   *)
(* its readystatechange handler settles.                                   *)

\* new Promise(...): resolve and reject act on a pending promise only;
\* `settles` counts the calls the handler made
NewPromise == [state |-> "pending", value |-> None, settles |-> 0]

Settle(promise, state, value) ==
    IF promise.state = "pending"
    THEN [state |-> state, value |-> value, settles |-> promise.settles + 1]
    ELSE [promise EXCEPT !.settles = @ + 1]

\* new NetworkError(`Error ${xhr.status}`)
NetworkError(status) ==
    [name |-> "NetworkError",
     message |-> <<"E", "r", "r", "o", "r", " ">> \o toString(status)]

\* the request as the executor leaves it: opened, handler set, sent
NewRequest(fn, responseType, url) ==
    [fn |-> fn, responseType |-> responseType, url |-> url,
     readyState |-> 1, status |-> 0, progress |-> 0,
     response |-> None, responseXML |-> None,
     promise |-> NewPromise]

requestXML(url) == NewRequest("requestXML", "document", url)

requestBinaryMedia(url) == NewRequest("requestBinaryMedia", "arraybuffer", url)

\* a faulty variant: status 300 counts as success
onreadystatechangeXMLUpTo300(x) ==
    IF x.readyState = 4
    THEN IF x.status >= 200 /\ x.status <= 300
         THEN [x EXCEPT !.promise = Settle(@, "resolved", x.responseXML)]
         ELSE [x EXCEPT !.promise = Settle(@, "rejected", NetworkError(x.status))]
    ELSE x

\* xhr.onreadystatechange of requestXML
onreadystatechangeXML(x) ==
    IF x.readyState = 4
    THEN IF x.status >= 200 /\ x.status < 300
         THEN [x EXCEPT !.promise = Settle(@, "resolved", x.responseXML)]
         ELSE [x EXCEPT !.promise = Settle(@, "rejected", NetworkError(x.status))]
    ELSE x

\* xhr.onreadystatechange of requestBinaryMedia
onreadystatechangeBinary(x) ==
    IF x.readyState = 4
    THEN IF x.status >= 200 /\ x.status < 300
         THEN [x EXCEPT !.promise = Settle(@, "resolved", x.response)]
         ELSE [x EXCEPT !.promise = Settle(@, "rejected", NetworkError(x.status))]
    ELSE x

\* the readystatechange event, delivered to the handler the request carries
FireReadyStateChange(x) ==
    IF x.fn = "requestXML" THEN onreadystatechangeXML(x)
    ELSE onreadystatechangeBinary(x)

\* what the transport holds for a URL, as the responseType shapes it
Body(responseType, url) == [type |-> responseType, url |-> url]

\* the request completed with the final status code given
Completed(x, status) ==
    FireReadyStateChange(
        [x EXCEPT !.readyState = 4,
                  !.status = status,
                  !.response = Body(x.responseType, x.url),
                  !.responseXML = IF x.responseType = "document"
                                  THEN Body(x.responseType, x.url) ELSE None])

\* the request failed below HTTP: readyState 4 with status 0 and no body
Failed(x) ==
    FireReadyStateChange(
        [x EXCEPT !.readyState = 4, !.status = 0,
                  !.response = None, !.responseXML = None])

Statuses == {199, 200, 204, 299, 300, 404, 500}

XhrUrls == {<<"m">>, <<"d", "/", "s">>}

XhrIdle == [fn |-> "none"]

XhrInit ==
    /\ xhr \in {requestXML(u) : u \in XhrUrls}
               \cup {requestBinaryMedia(u) : u \in XhrUrls}

\* readyState 2: the status line and the headers have arrived
XhrHeadersReceived ==
    /\ xhr.readyState = 1
    /\ \E s \in Statuses :
          xhr' = FireReadyStateChange([xhr EXCEPT !.readyState = 2, !.status = s])
    /\ UNCHANGED <<playerVars, timelineVars, pathVars>>

\* readyState 3: a part of the body has arrived
XhrLoading ==
    /\ xhr.readyState \in {2, 3}
    /\ xhr.progress < MaxProgress
    /\ xhr' = FireReadyStateChange(
                 [xhr EXCEPT !.readyState = 3, !.progress = @ + 1])
    /\ UNCHANGED <<playerVars, timelineVars, pathVars>>

\* readyState 4: the whole response has arrived
XhrDone ==
    /\ xhr.readyState \in {2, 3}
    /\ xhr' = Completed(xhr, xhr.status)
    /\ UNCHANGED <<playerVars, timelineVars, pathVars>>

\* readyState 4 after a transport failure
XhrNetworkFailure ==
    /\ xhr.readyState \in {1, 2, 3}
    /\ xhr' = Failed(xhr)
    /\ UNCHANGED <<playerVars, timelineVars, pathVars>>

XhrNext ==
    \/ XhrHeadersReceived
    \/ XhrLoading
    \/ XhrDone
    \/ XhrNetworkFailure

----------------------------------------------------------------------------
(* The player: the manifest, the feeders and their SourceBuffers.          *)

\* the manifest URL parseManifest is called with
MpdPath ==
    <<"d", "a", "s", "h", "/", "s", "t", "r", "e", "a", "m", ".", "m", "p", "d">>

\* await waitMilliseconds(5000)
BackoffMs == 5000

\* the tracks of the manifest: the first Period holds two AdaptationSets
Tracks == {1, 2}

RepresentationNode(k) ==
    [id |-> <<IF k = 1 THEN "v" ELSE "a">>, codecs |-> "codec"]

SegmentTemplateNode(k) ==
    [initialization |-> RepresentationIDToken \o <<"-", "i">>,
     media |-> RepresentationIDToken \o <<"-">> \o NumberToken,
     timescale |-> <<"1", "0">>,
     startNumber |-> <<"1">>,
     S |-> <<[d |-> <<"2">>, hasR |-> TRUE, r |-> toString(MaxSegments - 1)]>>]

\* an AdaptationSet with nRep Representation and nTpl SegmentTemplate children
AdaptationSetNode(k, nRep, nTpl) ==
    [mimeType |-> IF k = 1 THEN "video/mp4" ELSE "audio/mp4",
     representations |-> [j \in 1..nRep |-> RepresentationNode(k)],
     segmentTemplates |-> [j \in 1..nTpl |-> SegmentTemplateNode(k)]]

\* the AdaptationSets of the first Period, in document order
Manifests ==
    {[k \in Tracks |-> AdaptationSetNode(k, shape[k][1], shape[k][2])] :
        shape \in [Tracks -> (0..2) \X (0..2)]}

NoFeeder ==
    [pc |-> "Absent", container |-> "", representationId |-> <<>>,
     initializationSegmentPath |-> <<>>, timescale |-> <<>>,
     segmentTable |-> <<>>, index |-> 0, segmentBlob |-> None,
     request |-> None, timer |-> 0, error |-> ""]

NoSink ==
    [created |-> FALSE, type |-> "", updating |-> FALSE, pending |-> None,
     buffered |-> <<>>, endOfStream |-> <<>>, listeners |-> 0, quota |-> 0]

\* one entry of a feeder's history; `updating` is the sink's flag at the
\* moment the feeder called out (a fetch issued, an append attempted)
Event(op, index, what, result, sk) ==
    [op |-> op, index |-> index, what |-> what, result |-> result,
     updating |-> op \in {"fetch", "append"} /\ sk.updating]

\* a faulty variant: the request is sent twice
IssueFetchTwice(T, index, url) ==
    [T EXCEPT !.fd.request = requestBinaryMedia(url),
              !.lg = @ \o <<Event("fetch", index, url, "", T.sk),
                            Event("fetch", index, url, "", T.sk)>>]

\* requestBinaryMedia(url) called by the feeder: the request is in flight
IssueFetch(T, index, url) ==
    [T EXCEPT !.fd.request = requestBinaryMedia(url),
              !.lg = Append(@, Event("fetch", index, url, "", T.sk))]

\* the async function ends by an exception nobody catches
Throw(T, error) ==
    [T EXCEPT !.fd.pc = "Faulted", !.fd.error = error,
              !.fd.segmentBlob = None]

\* SourceBuffer.appendBuffer(data): what the sink can answer
AppendOutcomes(sk) ==
    IF sk.updating THEN {"InvalidStateError"}
    ELSE {"ok", "InvalidStateError"}
         \cup (IF sk.quota < MaxQuota THEN {"QuotaExceededError"} ELSE {})

\* SourceBuffer.appendBuffer(data) answering `outcome`
appendBuffer(T, data, outcome) ==
    LET ev == Event("append", T.fd.index, data, outcome, T.sk)
    IN IF outcome = "ok"
       THEN [T EXCEPT !.sk.updating = TRUE, !.sk.pending = data,
                      !.lg = Append(@, ev)]
       ELSE IF outcome = "QuotaExceededError"
            THEN [T EXCEPT !.sk.quota = @ + 1, !.lg = Append(@, ev)]
            ELSE [T EXCEPT !.lg = Append(@, ev)]

\* a faulty variant: the loop steps over every other entry
NextSegmentSkipping(T) ==
    IF T.fd.index + 1 < Len(T.fd.segmentTable)
    THEN IssueFetch([T EXCEPT !.fd.index = @ + 2, !.fd.pc = "FetchingSegment",
                              !.fd.segmentBlob = None],
                    T.fd.index + 2, T.fd.segmentTable[T.fd.index + 2].path)
    ELSE [T EXCEPT !.fd.index = Len(T.fd.segmentTable) + 1, !.fd.pc = "Done",
                   !.fd.segmentBlob = None]

\* a faulty variant: the end of the table is signalled to the sink
NextSegmentEndingStream(T) ==
    IF T.fd.index < Len(T.fd.segmentTable)
    THEN IssueFetch([T EXCEPT !.fd.index = @ + 1, !.fd.pc = "FetchingSegment",
                              !.fd.segmentBlob = None],
                    T.fd.index + 1, T.fd.segmentTable[T.fd.index + 1].path)
    ELSE [T EXCEPT !.fd.index = Len(T.fd.segmentTable) + 1, !.fd.pc = "Done",
                   !.fd.segmentBlob = None,
                   !.sk.endOfStream = Append(@, "")]

\* the head of `for (let segment of this.segmentTable)`: the next entry's
\* fetch is issued, or the loop and mainAsync end
NextSegment(T) ==
    IF T.fd.index < Len(T.fd.segmentTable)
    THEN IssueFetch([T EXCEPT !.fd.index = @ + 1, !.fd.pc = "FetchingSegment",
                              !.fd.segmentBlob = None],
                    T.fd.index + 1, T.fd.segmentTable[T.fd.index + 1].path)
    ELSE [T EXCEPT !.fd.index = Len(T.fd.segmentTable) + 1, !.fd.pc = "Done",
                   !.fd.segmentBlob = None]

\* a faulty variant: a rejected segment is given up for the next one
CatchAppendErrorSkipping(T, outcome) ==
    IF outcome = "QuotaExceededError" THEN NextSegment(T)
    ELSE Throw(T, outcome)

\* a faulty variant: a rejected segment is requested again, with no wait
CatchAppendErrorRefetching(T, outcome) ==
    IF outcome = "QuotaExceededError"
    THEN IssueFetch([T EXCEPT !.fd.pc = "FetchingSegment"], T.fd.index,
                    T.fd.segmentTable[T.fd.index].path)
    ELSE Throw(T, outcome)

\* a faulty variant: every refusal is waited out, whatever its name
CatchAppendErrorRetryingAll(T, outcome) ==
    [T EXCEPT !.fd.pc = "RetryingAppend", !.fd.timer = BackoffMs,
              !.lg = Append(@, Event("wait", T.fd.index, <<BackoffMs>>, "", T.sk))]

\* catch (ex): QuotaExceededError is logged and waited out, the rest rethrown
CatchAppendError(T, outcome) ==
    IF outcome = "QuotaExceededError"
    THEN [T EXCEPT !.fd.pc = "RetryingAppend", !.fd.timer = BackoffMs,
                   !.lg = Append(@, Event("wait", T.fd.index, <<BackoffMs>>, "", T.sk))]
    ELSE Throw(T, outcome)

\* one turn of `while (true) { try { appendBuffer(segmentBlob); break; } ... }`
TryAppend(T, outcome) ==
    IF outcome = "ok"
    THEN NextSegment(appendBuffer(T, T.fd.segmentBlob, outcome))
    ELSE CatchAppendError(appendBuffer(T, T.fd.segmentBlob, outcome), outcome)

\* a faulty variant: the listener is added without looking at the sink
updateEndedAlwaysListening(T, outcome) ==
    [T EXCEPT !.fd.pc = "WaitingBufferReady", !.sk.listeners = @ + 1]

\* a faulty variant: the wait is resolved whatever the sink does
updateEndedNotWaiting(T, outcome) ==
    TryAppend(T, outcome)

\* updateEnded(): resolved at once when the sink is idle, else one listener
\* is added and the feeder waits for "updateend"
updateEnded(T, outcome) ==
    IF ~T.sk.updating
    THEN TryAppend(T, outcome)
    ELSE [T EXCEPT !.fd.pc = "WaitingBufferReady", !.sk.listeners = @ + 1]

\* onUpdateEndHandler: the listener removes itself and resolves the wait
onUpdateEndHandler(T, outcome) ==
    TryAppend([T EXCEPT !.sk.listeners = @ - 1], outcome)

\* a faulty variant: the catch block does not return
OnInitSettledFallingThrough(T, promise, outcome) ==
    IF promise.state = "rejected"
    THEN NextSegment(
            [T EXCEPT !.sk.endOfStream = Append(@, "network"),
                      !.lg = Append(@, Event("endOfStream", 0, <<"network">>, "", T.sk))])
    ELSE IF outcome = "ok"
         THEN NextSegment(appendBuffer(T, promise.value, outcome))
         ELSE Throw(appendBuffer(T, promise.value, outcome), outcome)

\* mainAsync once the initialization segment's request has settled: the
\* catch block of a NetworkError, or the append and the start of the loop
OnInitSettled(T, promise, outcome) ==
    IF promise.state = "rejected"
    THEN [T EXCEPT !.fd.pc = "FailedNetwork", !.fd.error = "NetworkError",
                   !.sk.endOfStream = Append(@, "network"),
                   !.lg = Append(@, Event("endOfStream", 0, <<"network">>, "", T.sk))]
    ELSE IF outcome = "ok"
         THEN NextSegment(appendBuffer(T, promise.value, outcome))
         ELSE Throw(appendBuffer(T, promise.value, outcome), outcome)

\* a faulty variant: a segment whose request failed is passed over
OnSegmentSettledSkipping(T, promise, outcome) ==
    IF promise.state = "rejected"
    THEN NextSegment(T)
    ELSE updateEnded([T EXCEPT !.fd.segmentBlob = promise.value], outcome)

\* mainAsync once a media segment's request has settled
OnSegmentSettled(T, promise, outcome) ==
    IF promise.state = "rejected"
    THEN Throw(T, "NetworkError")
    ELSE updateEnded([T EXCEPT !.fd.segmentBlob = promise.value], outcome)

\* mediaSource.addSourceBuffer(`${container};codecs="${codec}"`)
addSourceBuffer(container, codec) ==
    [NoSink EXCEPT !.created = TRUE, !.type = <<container, codec>>]

\* new AdaptationSetFeeder(...): the feeder, its sink and its history when the
\* constructor returns, or what it leaves behind when it throws
Construct(mpdPath, adaptationSet) ==
    LET representation == xpathSingle(adaptationSet.representations)
        segmentTemplate == xpathSingle(adaptationSet.segmentTemplates)
    IN IF representation.threw
       THEN [threw |-> TRUE, error |-> representation.error,
             T |-> [fd |-> NoFeeder, sk |-> NoSink, lg |-> <<>>]]
       ELSE LET sk == addSourceBuffer(adaptationSet.mimeType,
                                      representation.node.codecs)
            IN IF segmentTemplate.threw
               THEN [threw |-> TRUE, error |-> segmentTemplate.error,
                     T |-> [fd |-> NoFeeder, sk |-> sk, lg |-> <<>>]]
               ELSE LET id == representation.node.id
                        tpl == segmentTemplate.node
                        fd == [NoFeeder EXCEPT
                                 !.pc = "FetchingInitSegment",
                                 !.container = adaptationSet.mimeType,
                                 !.representationId = id,
                                 !.initializationSegmentPath =
                                     InitializationSegmentPath(mpdPath, id, tpl),
                                 !.timescale = tpl.timescale,
                                 !.segmentTable = SegmentTable(mpdPath, id, tpl)]
                    IN [threw |-> FALSE, error |-> "",
                        T |-> IssueFetch([fd |-> fd, sk |-> sk, lg |-> <<>>], 0,
                                         fd.initializationSegmentPath)]

\* the loop of parseManifest from AdaptationSet k on; a constructor that
\* throws ends it
RECURSIVE ConstructFeeders(_, _, _, _)
ConstructFeeders(mpdPath, mpd, k, st) ==
    IF k > Len(mpd) THEN st
    ELSE LET made == Construct(mpdPath, mpd[k])
         IN IF made.threw
            THEN [st EXCEPT !.threw = TRUE, !.error = made.error,
                            !.sink[k] = made.T.sk]
            ELSE ConstructFeeders(mpdPath, mpd, k + 1,
                    [st EXCEPT !.feeders = Append(@, k),
                               !.feeder[k] = made.T.fd,
                               !.sink[k] = made.T.sk,
                               !.log[k] = made.T.lg])

PlayerStatuses == {200, 404}

Track(t) == [fd |-> feeder[t], sk |-> sink[t], lg |-> log[t]]

SetTrack(t, T) ==
    /\ feeder' = [feeder EXCEPT ![t] = T.fd]
    /\ sink' = [sink EXCEPT ![t] = T.sk]
    /\ log' = [log EXCEPT ![t] = T.lg]

\* the feeder's request has settled: it is in flight no more, and the
\* history keeps the status it ended with
Settled(T, status, promise) ==
    [T EXCEPT !.fd.request = None,
              !.lg = Append(@, Event("settled", T.fd.index, <<status>>,
                                     promise.state, T.sk))]

PlayerInit ==
    /\ loader = [pc |-> "Idle", request |-> None, error |-> ""]
    /\ manifest \in Manifests
    /\ feeders = [defined |-> FALSE, list |-> <<>>]
    /\ feeder = [t \in Tracks |-> NoFeeder]
    /\ sink = [t \in Tracks |-> NoSink]
    /\ log = [t \in Tracks |-> <<>>]
    /\ monitor = [printed |-> FALSE, lines |-> <<>>]

PlayerIdle ==
    /\ loader = [pc |-> "Idle", request |-> None, error |-> ""]
    /\ manifest = <<>>
    /\ feeders = [defined |-> FALSE, list |-> <<>>]
    /\ feeder = [t \in Tracks |-> NoFeeder]
    /\ sink = [t \in Tracks |-> NoSink]
    /\ log = [t \in Tracks |-> <<>>]
    /\ monitor = [printed |-> FALSE, lines |-> <<>>]

\* mediaSource.onsourceopen: parseManifest requests the manifest
SourceOpen ==
    /\ loader.pc = "Idle"
    /\ loader' = [loader EXCEPT !.pc = "FetchingManifest",
                                !.request = requestXML(MpdPath)]
    /\ UNCHANGED <<manifest, feeders, feeder, sink, log, monitor>>
    /\ UNCHANGED <<timelineVars, pathVars, xhrVars>>

\* the manifest request settles: parseManifest rejects, or sets mpd and
\* feeders and constructs one feeder per AdaptationSet
ManifestSettled ==
    /\ loader.pc = "FetchingManifest"
    /\ \E status \in PlayerStatuses :
          LET promise == Completed(loader.request, status).promise
              st == ConstructFeeders(MpdPath, manifest, 1,
                       [feeders |-> <<>>, feeder |-> feeder, sink |-> sink,
                        log |-> log, threw |-> FALSE, error |-> ""])
          IN IF promise.state = "rejected"
             THEN /\ loader' = [pc |-> "Failed", request |-> None,
                                error |-> "NetworkError"]
                  /\ UNCHANGED <<feeders, feeder, sink, log>>
             ELSE /\ loader' = [pc |-> IF st.threw THEN "Failed" ELSE "Done",
                                request |-> None, error |-> st.error]
                  /\ feeders' = [defined |-> TRUE, list |-> st.feeders]
                  /\ feeder' = st.feeder
                  /\ sink' = st.sink
                  /\ log' = st.log
    /\ UNCHANGED <<manifest, monitor>>
    /\ UNCHANGED <<timelineVars, pathVars, xhrVars>>

\* the initialization segment's request settles
InitFetchSettled(t) ==
    /\ feeder[t].pc = "FetchingInitSegment"
    /\ \E status \in PlayerStatuses, outcome \in AppendOutcomes(sink[t]) :
          LET promise == Completed(feeder[t].request, status).promise
              T == Settled(Track(t), status, promise)
          IN /\ promise.state = "rejected" => outcome = "ok"
             /\ SetTrack(t, OnInitSettled(T, promise, outcome))
    /\ UNCHANGED <<loader, manifest, feeders, monitor>>
    /\ UNCHANGED <<timelineVars, pathVars, xhrVars>>

\* a media segment's request settles
SegmentFetchSettled(t) ==
    /\ feeder[t].pc = "FetchingSegment"
    /\ \E status \in PlayerStatuses, outcome \in AppendOutcomes(sink[t]) :
          LET promise == Completed(feeder[t].request, status).promise
              T == Settled(Track(t), status, promise)
          IN /\ (promise.state = "rejected" \/ sink[t].updating)
                    => outcome = CHOOSE o \in AppendOutcomes(sink[t]) : TRUE
             /\ SetTrack(t, OnSegmentSettled(T, promise, outcome))
    /\ UNCHANGED <<loader, manifest, feeders, monitor>>
    /\ UNCHANGED <<timelineVars, pathVars, xhrVars>>

\* the sink ends its update: the pending data is buffered, "updateend" fires
UpdateEnd(t) ==
    /\ sink[t].updating
    /\ LET T == [Track(t) EXCEPT !.sk.updating = FALSE,
                                  !.sk.buffered = Append(@, sink[t].pending),
                                  !.sk.pending = None]
       IN IF T.sk.listeners > 0
          THEN \E outcome \in AppendOutcomes(T.sk) :
                  SetTrack(t, onUpdateEndHandler(T, outcome))
          ELSE SetTrack(t, T)
    /\ UNCHANGED <<loader, manifest, feeders, monitor>>
    /\ UNCHANGED <<timelineVars, pathVars, xhrVars>>

\* the backoff timer of waitMilliseconds fires: the append is tried again
BackoffElapsed(t) ==
    /\ feeder[t].pc = "RetryingAppend"
    /\ \E outcome \in AppendOutcomes(sink[t]) :
          SetTrack(t, TryAppend([Track(t) EXCEPT !.fd.timer = 0], outcome))
    /\ UNCHANGED <<loader, manifest, feeders, monitor>>
    /\ UNCHANGED <<timelineVars, pathVars, xhrVars>>

\* the setInterval callback: nothing while feeders is unset, else one line
\* per feeder of the list
MonitorTick ==
    /\ monitor' = IF ~feeders.defined THEN monitor
                  ELSE [printed |-> TRUE,
                        lines |-> [k \in 1..Len(feeders.list) |->
                                     feeder[feeders.list[k]].container]]
    /\ UNCHANGED <<loader, manifest, feeders, feeder, sink, log>>
    /\ UNCHANGED <<timelineVars, pathVars, xhrVars>>

Next ==
    \/ SourceOpen
    \/ ManifestSettled
    \/ \E t \in Tracks : InitFetchSettled(t)
    \/ \E t \in Tracks : SegmentFetchSettled(t)
    \/ \E t \in Tracks : UpdateEnd(t)
    \/ \E t \in Tracks : BackoffElapsed(t)
    \/ MonitorTick

Init ==
    /\ PlayerInit
    /\ tlIn = None /\ tlOut = [built |-> FALSE, table |-> <<>>]
    /\ rpIn = None /\ rpOut = [returned |-> FALSE, value |-> <<>>]
    /\ xhr = XhrIdle

Spec == Init /\ [][Next]_vars

\* every callback the platform owes a feeder is delivered in the end: the
\* answer of its request, "updateend" of its sink's update, its timer, and
\* the interval timer of the monitor
Fairness ==
    /\ \A t \in Tracks : WF_vars(InitFetchSettled(t))
    /\ \A t \in Tracks : WF_vars(SegmentFetchSettled(t))
    /\ \A t \in Tracks : WF_vars(UpdateEnd(t))
    /\ \A t \in Tracks : WF_vars(BackoffElapsed(t))
    /\ WF_vars(MonitorTick)

SpecFair == Init /\ [][Next]_vars /\ Fairness

XhrSpecInit ==
    /\ PlayerIdle
    /\ tlIn = None /\ tlOut = [built |-> FALSE, table |-> <<>>]
    /\ rpIn = None /\ rpOut = [returned |-> FALSE, value |-> <<>>]
    /\ XhrInit

SpecXhr == XhrSpecInit /\ [][XhrNext]_vars

----------------------------------------------------------------------------
(* The segment table, built from every SegmentTemplate of a bounded set.   *)

SeqsUpTo(S, n) == UNION {[1..k -> S] : k \in 0..n}

\* the S elements: d > 0, r absent or r >= 0
SNodes ==
    {[d |-> toString(dv), hasR |-> FALSE, r |-> <<>>] : dv \in 1..MaxDuration}
    \cup {[d |-> toString(dv), hasR |-> TRUE, r |-> toString(rv)] :
             dv \in 1..MaxDuration, rv \in 0..MaxRepeat}

StartNumbers == {<<"0">>, <<"1">>, <<"9">>, <<"0", "7">>}

TimelineRepresentationId == <<"v">>

TimelineInputs ==
    {[SegmentTemplateNode(1) EXCEPT !.startNumber = n, !.S = s] :
        n \in StartNumbers, s \in SeqsUpTo(SNodes, MaxSEntries)}

TimelineInit ==
    /\ PlayerIdle
    /\ tlIn \in TimelineInputs
    /\ tlOut = [built |-> FALSE, table |-> <<>>]
    /\ rpIn = None /\ rpOut = [returned |-> FALSE, value |-> <<>>]
    /\ xhr = XhrIdle

\* the constructor parses the segment list of tlIn
BuildSegmentTable ==
    /\ ~tlOut.built
    /\ tlOut' = [built |-> TRUE,
                 table |-> SegmentTable(MpdPath, TimelineRepresentationId, tlIn)]
    /\ UNCHANGED <<tlIn, playerVars, pathVars, xhrVars>>

TimelineNext == BuildSegmentTable

SpecTimeline == TimelineInit /\ [][TimelineNext]_vars

----------------------------------------------------------------------------
(* resolvePath, applied to every manifest URL of a bounded set.            *)

PathChars == {"a", "/"}

ManifestUrls == (SeqsUpTo(PathChars, MaxPathLen) \ {<<>>}) \cup {MpdPath}

TemplateResults == {<<"s">>, <<"s", "/", "t">>}

PathInit ==
    /\ PlayerIdle
    /\ tlIn = None /\ tlOut = [built |-> FALSE, table |-> <<>>]
    /\ rpIn \in [mpdPath : ManifestUrls, relativePath : TemplateResults]
    /\ rpOut = [returned |-> FALSE, value |-> <<>>]
    /\ xhr = XhrIdle

\* AdaptationSetFeeder.resolvePath(mpdPath, relativePath) is called
ResolvePathCall ==
    /\ ~rpOut.returned
    /\ rpOut' = [returned |-> TRUE,
                 value |-> resolvePath(rpIn.mpdPath, rpIn.relativePath)]
    /\ UNCHANGED <<rpIn, playerVars, timelineVars, xhrVars>>

PathNext == ResolvePathCall

SpecPath == PathInit /\ [][PathNext]_vars

----------------------------------------------------------------------------
(* Properties of the segment table (SpecTimeline).                         *)

\* the repeat count an S element declares: r, or 0 when r is absent
DeclaredRepeat(node) == IF node.hasR THEN parseInt(node.r) ELSE 0

\* the durations the S elements stand for: r + 1 times d, element by element
RECURSIVE ExpectedDurations(_)
ExpectedDurations(nodes) ==
    IF nodes = <<>> THEN <<>>
    ELSE [k \in 1..(DeclaredRepeat(Head(nodes)) + 1) |-> parseInt(Head(nodes).d)]
         \o ExpectedDurations(Tail(nodes))

RECURSIVE ExpectedLength(_)
ExpectedLength(nodes) ==
    IF nodes = <<>> THEN 0
    ELSE DeclaredRepeat(Head(nodes)) + 1 + ExpectedLength(Tail(nodes))

\* C6: the table built from any SegmentTimeline (d > 0, r >= 0) starts at 0,
\* every entry ends at its start plus its duration, and every entry ends
\* where its successor starts.
C6_Contiguity ==
    tlOut.built =>
        LET table == tlOut.table
        IN /\ Len(table) > 0 => table[1].start = 0
           /\ \A i \in 1..Len(table) :
                 table[i].end = table[i].start + table[i].duration
           /\ \A i \in 1..(Len(table) - 1) : table[i].end = table[i + 1].start

\* a table of two S elements of different durations, one of them repeated
C6_Witness ==
    /\ tlOut.built
    /\ Len(tlIn.S) = 2
    /\ tlIn.S[1].d # tlIn.S[2].d
    /\ tlIn.S[1].hasR /\ parseInt(tlIn.S[1].r) >= 1
    /\ Len(tlOut.table) >= 3
    /\ tlOut.table[Len(tlOut.table)].start > 0

\* C7: every S element of duration d and repeat count r (absent r meaning 0)
\* contributes exactly r + 1 consecutive entries of duration d, in document
\* order: the table is as long as the sum of the r + 1 and its durations
\* are the runs of the S elements one after the other.
C7_RepeatExpansion ==
    tlOut.built =>
        /\ Len(tlOut.table) = ExpectedLength(tlIn.S)
        /\ [i \in 1..Len(tlOut.table) |-> tlOut.table[i].duration]
              = ExpectedDurations(tlIn.S)

\* a repeated S element followed by one without r, of another duration
C7_Witness ==
    /\ tlOut.built
    /\ Len(tlIn.S) = 2
    /\ tlIn.S[1].hasR /\ parseInt(tlIn.S[1].r) = 2
    /\ ~tlIn.S[2].hasR
    /\ tlIn.S[1].d # tlIn.S[2].d
    /\ Len(tlOut.table) = 4

\* the path of the entry numbered n of representation "v" under dash/
NumberedPath(n) == <<"d", "a", "s", "h", "/", "v", "-">> \o toString(n)

\* C8: the number substituted for $Number$ in the path of entry k (counted
\* from 0) is startNumber + k, across repeats and across S elements.
C8_Numbering ==
    tlOut.built =>
        \A k \in 1..Len(tlOut.table) :
            tlOut.table[k].path = NumberedPath(parseInt(tlIn.startNumber) + k - 1)

\* numbering from 9 over a repeated S element and on into the next one
C8_Witness ==
    /\ tlOut.built
    /\ tlIn.startNumber = <<"9">>
    /\ Len(tlIn.S) = 2
    /\ tlIn.S[1].hasR /\ parseInt(tlIn.S[1].r) >= 1
    /\ Len(tlOut.table) >= 3
    /\ tlOut.table[3].path = NumberedPath(11)

----------------------------------------------------------------------------
(* Properties of resolvePath (SpecPath).                                   *)

\* the URL with its final path component (what follows the last "/", the
\* whole URL when it has no "/") replaced by the template result
ReplaceFinalComponent(url, templateResult) ==
    LET slashes == {i \in 1..Len(url) : url[i] = "/"}
        last == IF slashes = {} THEN 0
                ELSE CHOOSE i \in slashes : \A j \in slashes : j <= i
    IN SubSeq(url, 1, last) \o templateResult

\* C9: for every manifest URL and every template result, the resolved path
\* is the manifest URL with its final path component replaced by the
\* template result, a URL of a single component included.
C9_FinalComponentReplaced ==
    rpOut.returned =>
        rpOut.value = ReplaceFinalComponent(rpIn.mpdPath, rpIn.relativePath)

\* the case of the source: "dash/stream.mpd" resolves under "dash/"
C9_Witness ==
    /\ rpOut.returned
    /\ rpIn.mpdPath = MpdPath
    /\ rpIn.relativePath = <<"s">>
    /\ rpOut.value = <<"d", "a", "s", "h", "/", "s">>

----------------------------------------------------------------------------
(* Properties of requestXML and requestBinaryMedia (SpecXhr).              *)

\* C10: a request settles its promise exactly once, and only at readyState
\* 4: resolved with the payload when 200 <= status < 300, rejected with a
\* NetworkError carrying the status otherwise.
C10_SettlesOnceByStatus ==
    LET promise == xhr.promise
    IN /\ xhr.readyState < 4 => promise.state = "pending" /\ promise.settles = 0
       /\ xhr.readyState = 4 =>
             /\ promise.settles = 1
             /\ IF 200 <= xhr.status /\ xhr.status < 300
                THEN /\ promise.state = "resolved"
                     /\ promise.value = Body(xhr.responseType, xhr.url)
                ELSE /\ promise.state = "rejected"
                     /\ promise.value = NetworkError(xhr.status)

\* a document request that ended with status 300, after progress events
C10_Witness ==
    /\ xhr.fn = "requestXML"
    /\ xhr.readyState = 4
    /\ xhr.status = 300
    /\ xhr.progress = 2
    /\ xhr.promise.state = "rejected"
    /\ xhr.promise.settles = 1

----------------------------------------------------------------------------
(* Properties of the feeders (Spec).                                       *)

\* what a feeder holds after fetching a URL
Payload(url) == Body("arraybuffer", url)

\* the payloads in the order the feed loop is to append them
ExpectedAppends(t) ==
    <<Payload(feeder[t].initializationSegmentPath)>>
    \o [k \in 1..Len(feeder[t].segmentTable) |->
            Payload(feeder[t].segmentTable[k].path)]

IsPrefix(s, full) == Len(s) <= Len(full) /\ s = SubSeq(full, 1, Len(s))

\* the events of a feeder's history that concern table entry k (0: the
\* initialization segment)
EventsOf(t, k) == SelectSeq(log[t], LAMBDA e : e.index = k)

Issued(t, k) == \E j \in DOMAIN log[t] : log[t][j].op = "fetch" /\ log[t][j].index = k

\* C1 as stated: when the GET for entry i+1 is issued, the append of entry
\* i has completed: the sink is no longer mid-update.
C1_FetchAfterAppendCompleted ==
    \A t \in Tracks : \A j \in DOMAIN log[t] :
        (log[t][j].op = "fetch" /\ log[t][j].index >= 2) => ~log[t][j].updating

\* C1 amended: when the GET for entry i+1 is issued, the sink has accepted
\* the append of entry i (appendBuffer returned without throwing); the sink
\* may still be mid-update for it.
C1_FetchAfterAppendAccepted ==
    \A t \in Tracks : \A j \in DOMAIN log[t] :
        (log[t][j].op = "fetch" /\ log[t][j].index >= 2) =>
            /\ j > 1
            /\ log[t][j - 1].op = "append"
            /\ log[t][j - 1].index = log[t][j].index - 1
            /\ log[t][j - 1].result = "ok"
            /\ log[t][j - 1].what =
                  Payload(feeder[t].segmentTable[log[t][j].index - 1].path)

\* the GET for the second entry was issued while the sink was mid-update
\* for the first
C1_Witness ==
    \E t \in Tracks : \E j \in DOMAIN log[t] :
        /\ log[t][j].op = "fetch"
        /\ log[t][j].index = 2
        /\ log[t][j].updating
        /\ sink[t].buffered = <<Payload(feeder[t].initializationSegmentPath)>>

\* C2: what a sink has accepted, finished or not, is a prefix of the
\* initialization segment followed by the table entries in order, and a
\* feeder's position in its table never decreases.
C2_AppendsArePrefix ==
    /\ [](\A t \in Tracks :
            sink[t].created /\ feeder[t].pc # "Absent" =>
                /\ IsPrefix(sink[t].buffered, ExpectedAppends(t))
                /\ sink[t].updating =>
                      IsPrefix(Append(sink[t].buffered, sink[t].pending),
                               ExpectedAppends(t)))
    /\ [][\A t \in Tracks : feeder'[t].index >= feeder[t].index]_vars

\* a sink that holds the initialization segment and every table entry
C2_Witness ==
    \E t \in Tracks :
        /\ feeder[t].pc = "Done"
        /\ Len(feeder[t].segmentTable) >= 2
        /\ sink[t].buffered = ExpectedAppends(t)

\* the shape of the history of entry k: one fetch and its answer, then the
\* append attempts, every rejected one followed by one wait of 5000 ms
AttemptsWellFormed(t, k) ==
    LET ev == EventsOf(t, k)
    IN \A j \in 1..Len(ev) :
          /\ j = 1 => ev[j].op = "fetch"
          /\ j = 2 => ev[j].op = "settled"
          /\ (j > 2 /\ j % 2 = 1) =>
                /\ ev[j].op = "append"
                /\ ev[j].what = Payload(feeder[t].segmentTable[k].path)
                /\ ev[j].result # "QuotaExceededError" => j = Len(ev)
          /\ (j > 2 /\ j % 2 = 0) =>
                /\ ev[j].op = "wait"
                /\ ev[j].what = <<5000>>
                /\ ev[j - 1].result = "QuotaExceededError"

\* C3: a segment the sink rejects k times for capacity and then accepts
\* is fetched once and appended k + 1 times, always with its own payload,
\* with one wait of 5000 ms after every rejection, and the next segment's
\* fetch is issued only after the accepted append.
C3_RetryUntilAccepted ==
    \A t \in Tracks : \A k \in 1..Len(feeder[t].segmentTable) :
        /\ AttemptsWellFormed(t, k)
        /\ Issued(t, k + 1) =>
              LET ev == EventsOf(t, k)
              IN ev[Len(ev)].op = "append" /\ ev[Len(ev)].result = "ok"

\* two rejections, the third attempt accepted, the next segment requested
C3_Witness ==
    \E t \in Tracks :
        LET ev == EventsOf(t, 1)
        IN /\ Len(ev) = 7
           /\ ev[3].result = "QuotaExceededError"
           /\ ev[5].result = "QuotaExceededError"
           /\ ev[7].result = "ok"
           /\ Issued(t, 2)

\* C4: a feeder whose initialization-segment request was rejected signals
\* end-of-stream "network" once and does nothing more: no segment request,
\* no append.
C4_InitFailureEndsStream ==
    \A t \in Tracks : \A j \in DOMAIN log[t] :
        (log[t][j].op = "settled" /\ log[t][j].index = 0
            /\ log[t][j].result = "rejected") =>
            /\ Len(log[t]) = j + 1
            /\ log[t][j + 1].op = "endOfStream"
            /\ log[t][j + 1].what = <<"network">>
            /\ sink[t].endOfStream = <<"network">>
            /\ feeder[t].pc = "FailedNetwork"
            /\ feeder[t].request = None
            /\ ~sink[t].updating
            /\ sink[t].buffered = <<>>

\* one feeder has failed on its initialization segment while the other
\* has run through its table
C4_Witness ==
    \E t, u \in Tracks :
        /\ feeder[t].pc = "FailedNetwork"
        /\ sink[t].endOfStream = <<"network">>
        /\ feeder[u].pc = "Done"
        /\ ~sink[u].updating

WellFormed(adaptationSet) ==
    /\ Len(adaptationSet.representations) = 1
    /\ Len(adaptationSet.segmentTemplates) = 1

\* nothing of track t has failed: no request rejected, no append refused
OwnOperationsSucceeded(t) ==
    \A j \in DOMAIN log[t] :
        /\ log[t][j].op = "settled" => log[t][j].result = "resolved"
        /\ log[t][j].op = "append" => log[t][j].result = "ok"

\* track t waits for nothing: no request, no update, no timer
Quiescent(t) ==
    /\ feeder[t].pc \in {"Absent", "Done", "FailedNetwork", "Faulted"}
    /\ ~sink[t].updating

\* C5: with the manifest loaded, a well-formed track whose own requests
\* and appends succeed runs to Done whatever happens to the other track.
C5_IndependentTracks ==
    \A t \in Tracks :
        (/\ loader.pc \in {"Done", "Failed"}
         /\ loader.error # "NetworkError"
         /\ WellFormed(manifest[t])
         /\ OwnOperationsSucceeded(t)
         /\ Quiescent(t))
        => feeder[t].pc = "Done"

\* the second track ran to Done although the first failed on the network
C5_Witness ==
    /\ feeder[1].pc \in {"FailedNetwork", "Faulted"}
    /\ feeder[2].pc = "Done"
    /\ ~sink[2].updating

\* C11: a QuotaExceededError of appendBuffer, on the initialization segment
\* as on a media segment, is never surfaced: every append the sink refused
\* for capacity is followed by a wait, and no feeder ends with that error.
C11_CapacityNeverSurfaced ==
    \A t \in Tracks :
        /\ ~(feeder[t].pc = "Faulted" /\ feeder[t].error = "QuotaExceededError")
        /\ \A j \in DOMAIN log[t] :
              (log[t][j].op = "append"
                  /\ log[t][j].result = "QuotaExceededError") =>
                  /\ j < Len(log[t])
                  /\ log[t][j + 1].op = "wait"

\* the sink refused the initialization segment for capacity and the feeder
\* ended with that error, with no wait and no segment requested
C11_Witness ==
    \E t \in Tracks :
        /\ feeder[t].pc = "Faulted"
        /\ feeder[t].error = "QuotaExceededError"
        /\ log[t][Len(log[t])].op = "append"
        /\ log[t][Len(log[t])].index = 0
        /\ log[t][Len(log[t])].result = "QuotaExceededError"
        /\ ~Issued(t, 1)

\* C12: a media segment's request that is rejected ends the feeder: that is
\* the last thing the feeder does, it has appended nothing of that segment,
\* requested no later one, and it is not Done.
C12_SegmentFetchFailureIsTerminal ==
    \A t \in Tracks : \A j \in DOMAIN log[t] :
        (log[t][j].op = "settled" /\ log[t][j].index >= 1
            /\ log[t][j].result = "rejected") =>
            /\ j = Len(log[t])
            /\ feeder[t].pc = "Faulted"
            /\ feeder[t].error = "NetworkError"
            /\ feeder[t].request = None
            /\ \A i \in DOMAIN log[t] :
                  /\ log[t][i].op = "append" => log[t][i].index < log[t][j].index
                  /\ log[t][i].op = "fetch" => log[t][i].index <= log[t][j].index

\* the request of the second segment failed after the first was buffered,
\* while the other track ran on to Done
C12_Witness ==
    \E t, u \in Tracks :
        /\ feeder[t].pc = "Faulted"
        /\ feeder[t].error = "NetworkError"
        /\ feeder[t].index = 2
        /\ log[t][Len(log[t])] = [op |-> "settled", index |-> 2, what |-> <<404>>,
                                  result |-> "rejected", updating |-> FALSE]
        /\ ~sink[t].updating
        /\ Len(sink[t].buffered) = 2
        /\ feeder[u].pc = "Done"

\* the sink accepted an append of entry k of track t (0: the initialization
\* segment)
Accepted(t, k) ==
    \E j \in DOMAIN log[t] :
        /\ log[t][j].op = "append"
        /\ log[t][j].index = k
        /\ log[t][j].result = "ok"

\* C13: a feeder is Done exactly when the initialization segment and every
\* entry of its table have been appended, and it signals no end of stream
\* then; end of stream is signalled only, with "network", right after the
\* initialization segment's request was rejected, so never once a media
\* segment has been requested.
C13_DoneIffAllAppended ==
    \A t \in Tracks :
        /\ feeder[t].pc = "Done" <=>
              \A k \in 0..Len(feeder[t].segmentTable) : Accepted(t, k)
        /\ feeder[t].pc = "Done" => sink[t].endOfStream = <<>>
        /\ sink[t].endOfStream # <<>> =>
              /\ sink[t].endOfStream = <<"network">>
              /\ feeder[t].pc = "FailedNetwork"
              /\ ~Issued(t, 1)
        /\ \A j \in DOMAIN log[t] :
              log[t][j].op = "endOfStream" =>
                  /\ j > 1
                  /\ log[t][j - 1].op = "settled"
                  /\ log[t][j - 1].index = 0
                  /\ log[t][j - 1].result = "rejected"

\* a feeder is Done, its sink still mid-update for the last entry and
\* with no end of stream, next to one that was told end of stream
C13_Witness ==
    \E t, u \in Tracks :
        /\ feeder[t].pc = "Done"
        /\ sink[t].updating
        /\ sink[t].pending =
              Payload(feeder[t].segmentTable[Len(feeder[t].segmentTable)].path)
        /\ sink[t].endOfStream = <<>>
        /\ sink[u].endOfStream = <<"network">>

----------------------------------------------------------------------------
(* Progress of the feeders (SpecFair).                                     *)

Started(t) == feeder[t].pc # "Absent"

\* a request of track t was rejected
FetchFailed(t) ==
    \E j \in DOMAIN log[t] :
        log[t][j].op = "settled" /\ log[t][j].result = "rejected"

\* the sink of track t refused an append for another reason than capacity
AppendFailedFatally(t) ==
    \E j \in DOMAIN log[t] :
        /\ log[t][j].op = "append"
        /\ log[t][j].result \notin {"ok", "QuotaExceededError"}

\* the sink of track t refused the initialization segment for capacity
InitRefusedForCapacity(t) ==
    \E j \in DOMAIN log[t] :
        /\ log[t][j].op = "append"
        /\ log[t][j].index = 0
        /\ log[t][j].result = "QuotaExceededError"

DoneWithAllAppended(t) ==
    /\ feeder[t].pc = "Done"
    /\ \A k \in 0..Len(feeder[t].segmentTable) : Accepted(t, k)

\* a feeder that waits out a refusal does nothing but append the same entry
\* again, and a further refusal for capacity leaves it where it was
RetryStaysOnSegment(t) ==
    (feeder[t].pc = "RetryingAppend" /\ log'[t] # log[t]) =>
        LET ev == log'[t][Len(log[t]) + 1]
        IN /\ ev.op = "append"
           /\ ev.index = feeder[t].index
           /\ ev.what = feeder[t].segmentBlob
           /\ ev.result = "QuotaExceededError" =>
                 /\ feeder'[t].pc = "RetryingAppend"
                 /\ feeder'[t].index = feeder[t].index
                 /\ feeder'[t].request = None

\* C14: a started feeder whose requests all succeed and whose sink ends
\* every update and refuses any one append only for capacity, finitely
\* often, reaches Done with every entry appended; a feeder whose append is
\* refused for capacity stays on that entry, retrying, neither advancing
\* nor ending.
C14_RunsToDone ==
    /\ \A t \in Tracks :
          Started(t) ~> (\/ DoneWithAllAppended(t)
                         \/ FetchFailed(t)
                         \/ AppendFailedFatally(t))
    /\ [][\A t \in Tracks : RetryStaysOnSegment(t)]_vars

\* the same, for a sink that accepts the initialization segment at once
RunsToDoneOrFaulted ==
    /\ \A t \in Tracks :
          Started(t) ~> (\/ DoneWithAllAppended(t)
                         \/ FetchFailed(t)
                         \/ AppendFailedFatally(t)
                         \/ InitRefusedForCapacity(t))
    /\ [][\A t \in Tracks : RetryStaysOnSegment(t)]_vars

\* a feeder has ended for good although every request succeeded and the
\* sink refused one append, once, for capacity
C14_Witness ==
    \E t \in Tracks :
        /\ feeder[t].pc = "Faulted"
        /\ ~FetchFailed(t)
        /\ ~AppendFailedFatally(t)
        /\ InitRefusedForCapacity(t)
        /\ sink[t].quota = 1

----------------------------------------------------------------------------
(* The sink's readiness (Spec, SpecFair).                                  *)

\* C15: appendBuffer is never called on a sink that is mid-update, be it
\* for the initialization segment, for the first attempt of a segment or
\* for an attempt that follows a refusal and its wait.
C15_AppendOnlyWhenIdle ==
    \A t \in Tracks : \A j \in DOMAIN log[t] :
        log[t][j].op = "append" => ~log[t][j].updating

\* a segment requested while the sink was mid-update was appended, at the
\* first attempt and again after a refusal and a wait, to an idle sink
C15_Witness ==
    \E t \in Tracks : \E j \in DOMAIN log[t] :
        /\ j + 4 <= Len(log[t])
        /\ log[t][j].op = "fetch" /\ log[t][j].updating
        /\ log[t][j + 1].op = "settled"
        /\ log[t][j + 2].op = "append" /\ ~log[t][j + 2].updating
        /\ log[t][j + 2].result = "QuotaExceededError"
        /\ log[t][j + 3].op = "wait"
        /\ log[t][j + 4].op = "append" /\ ~log[t][j + 4].updating
        /\ log[t][j + 4].result = "ok"

Waiting(t) == feeder[t].pc = "WaitingBufferReady"

\* a waiting feeder has one listener on a sink that is mid-update; no
\* other feeder has any
OneListenerWhileBusy ==
    \A t \in Tracks :
        /\ sink[t].listeners = (IF Waiting(t) THEN 1 ELSE 0)
        /\ Waiting(t) => sink[t].updating

\* a waiting feeder does nothing until its sink ends the update; at that
\* step the listener is gone and the feeder makes its append attempt
ResolvedByUpdateEnd(t) ==
    Waiting(t) =>
        IF sink'[t].buffered = sink[t].buffered
        THEN feeder'[t] = feeder[t] /\ sink'[t] = sink[t] /\ log'[t] = log[t]
        ELSE /\ sink'[t].buffered = Append(sink[t].buffered, sink[t].pending)
             /\ ~Waiting(t)'
             /\ sink'[t].listeners = 0
             /\ Len(log'[t]) > Len(log[t])
             /\ log'[t][Len(log[t]) + 1].op = "append"
             /\ log'[t][Len(log[t]) + 1].index = feeder[t].index
             /\ log'[t][Len(log[t]) + 1].what = feeder[t].segmentBlob
             /\ ~log'[t][Len(log[t]) + 1].updating

\* C16: a wait on an idle sink adds no listener and is over at once; a wait
\* on a sink mid-update adds one listener, is resolved once, by the next
\* "updateend", which removes the listener; a feeder has at most one
\* listener, and a wait on a sink that ends its update does not last
\* for ever.
C16_ReadinessWait ==
    /\ []OneListenerWhileBusy
    /\ [][\A t \in Tracks : ResolvedByUpdateEnd(t)]_vars
    /\ \A t \in Tracks : Waiting(t) ~> ~Waiting(t)

\* both feeders wait, each with its listener, for the update of the first
\* segment to end, the second segment in hand
C16_Witness ==
    \A t \in Tracks :
        /\ Waiting(t)
        /\ feeder[t].index = 2
        /\ sink[t].listeners = 1
        /\ sink[t].updating
        /\ sink[t].pending = Payload(feeder[t].segmentTable[1].path)

----------------------------------------------------------------------------
(* Fatal append failures and the order of requests (Spec).                 *)

\* C17: an append of a media segment that fails for another reason than
\* capacity ends the feeder: it is the last thing the feeder does, with no
\* wait, no further attempt, no later request, and the feeder is not Done.
C17_OtherAppendFailureIsFatal ==
    \A t \in Tracks : \A j \in DOMAIN log[t] :
        (log[t][j].op = "append" /\ log[t][j].index >= 1
            /\ log[t][j].result \notin {"ok", "QuotaExceededError"}) =>
            /\ j = Len(log[t])
            /\ feeder[t].pc = "Faulted"
            /\ feeder[t].error = log[t][j].result
            /\ feeder[t].request = None
            /\ feeder[t].timer = 0
            /\ ~Issued(t, log[t][j].index + 1)
            /\ ~Accepted(t, log[t][j].index)

\* the second segment was refused for capacity, waited out, and then
\* refused with InvalidStateError, which ended the feeder
C17_Witness ==
    \E t \in Tracks :
        LET ev == EventsOf(t, 2)
        IN /\ Len(ev) = 5
           /\ ev[3].result = "QuotaExceededError"
           /\ ev[4].op = "wait"
           /\ ev[5].op = "append"
           /\ ev[5].result = "InvalidStateError"
           /\ feeder[t].pc = "Faulted"
           /\ feeder[t].error = "InvalidStateError"

\* the requests of track t, in the order they were issued
FetchEvents(t) == SelectSeq(log[t], LAMBDA e : e.op = "fetch")

\* the requests of track t that have been issued and not answered
Outstanding(t) ==
    Len(FetchEvents(t)) - Len(SelectSeq(log[t], LAMBDA e : e.op = "settled"))

\* C18: a feeder has at most one request unanswered; its requests are, in
\* order, the initialization segment and then the table entries one by
\* one, none twice and none skipped, each issued only after the request
\* before it was answered with success.
C18_FetchesInOrderOneAtATime ==
    \A t \in Tracks :
        LET f == FetchEvents(t)
        IN /\ Outstanding(t) \in {0, 1}
           /\ Outstanding(t) = 1 <=>
                 feeder[t].pc \in {"FetchingInitSegment", "FetchingSegment"}
           /\ Len(f) <= Len(feeder[t].segmentTable) + 1
           /\ \A k \in 1..Len(f) :
                 /\ f[k].index = k - 1
                 /\ f[k].what = IF k = 1 THEN feeder[t].initializationSegmentPath
                                ELSE feeder[t].segmentTable[k - 1].path
           /\ \A j \in DOMAIN log[t] :
                 (log[t][j].op = "fetch" /\ log[t][j].index >= 1) =>
                     \E i \in 1..(j - 1) :
                         /\ log[t][i].op = "settled"
                         /\ log[t][i].index = log[t][j].index - 1
                         /\ log[t][i].result = "resolved"

\* the request of the second entry is unanswered; the first entry was
\* requested once although its append was refused and tried again
C18_Witness ==
    \E t \in Tracks :
        /\ feeder[t].pc = "FetchingSegment"
        /\ Len(FetchEvents(t)) = 3
        /\ Outstanding(t) = 1
        /\ Len(SelectSeq(EventsOf(t, 1), LAMBDA e : e.op = "wait")) = 2
        /\ Len(SelectSeq(EventsOf(t, 1), LAMBDA e : e.op = "fetch")) = 1

----------------------------------------------------------------------------
(* Construction and the list of feeders (Spec).                            *)

InList(t) == \E k \in DOMAIN feeders.list : feeders.list[k] = t

\* C19: a track whose AdaptationSet has not exactly one Representation and
\* exactly one SegmentTemplate is never created: it has no sink, it issues
\* no request, and no feeder of it is in the list the monitor reads.
C19_FailedTrackNeverCreated ==
    \A t \in Tracks :
        ~WellFormed(manifest[t]) =>
            /\ ~sink[t].created
            /\ log[t] = <<>>
            /\ feeder[t].pc = "Absent"
            /\ ~InList(t)

\* the constructor has thrown for want of a SegmentTemplate and left the
\* sink it had added behind, with no feeder and no request
C19_Witness ==
    \E t \in Tracks :
        /\ Len(manifest[t].representations) = 1
        /\ Len(manifest[t].segmentTemplates) = 0
        /\ loader.pc = "Failed"
        /\ sink[t].created
        /\ feeder[t].pc = "Absent"
        /\ log[t] = <<>>
        /\ ~InList(t)

\* the AdaptationSets of the manifest, in document order
AdaptationSets == [k \in 1..Len(manifest) |-> k]

\* the AdaptationSets that come before the first malformed one
BuiltBeforeFailure ==
    SelectSeq(AdaptationSets,
              LAMBDA k : \A u \in 1..k : WellFormed(manifest[u]))

\* C20: parseManifest is over when the list is set, whatever the feeders
\* do, and the list the monitor reads is never partly built: it holds one
\* feeder per AdaptationSet, in document order, each with the request of
\* its initialization segment issued.
C20_ListNeverPartial ==
    /\ feeders.defined =>
          /\ loader.pc \in {"Done", "Failed"}
          /\ feeders.list = AdaptationSets
          /\ \A t \in Tracks : Issued(t, 0)
    /\ monitor.printed =>
          monitor.lines = [k \in 1..Len(manifest) |-> manifest[k].mimeType]

\* what the list holds whatever the manifest: the feeders of the
\* AdaptationSets before the first malformed one, so all of them when
\* none is malformed
ListBuiltUpToFailure ==
    /\ feeders.defined =>
          /\ loader.pc \in {"Done", "Failed"}
          /\ loader.pc = "Done" <=> feeders.list = AdaptationSets
          /\ feeders.list = BuiltBeforeFailure
          /\ \A t \in Tracks : InList(t) <=> Issued(t, 0)
    /\ monitor.printed =>
          /\ feeders.defined
          /\ monitor.lines = [k \in 1..Len(feeders.list) |->
                                 manifest[feeders.list[k]].mimeType]

\* the monitor has printed an empty list although the second AdaptationSet
\* is well-formed: the constructor of the first had thrown
C20_Witness ==
    /\ monitor.printed
    /\ monitor.lines = <<>>
    /\ feeders = [defined |-> TRUE, list |-> <<>>]
    /\ ~WellFormed(manifest[1])
    /\ WellFormed(manifest[2])
    /\ loader.pc = "Failed"

=============================================================================
